---- MODULE Spec2Model ----
(***************************************************************************)
(* Model of reconcrawl's Crawler (src/reconcrawl/extractor.py): the crawl  *)
(* frontier with its page budget, URL normalisation, and the value-level   *)
(* deduplication of extracted e-mail addresses and phone numbers.          *)
(*                                                                         *)
(* Python strings are modelled as sequences of one-character strings, so   *)
(* that lower-casing, digit stripping, URL splitting and rstrip are        *)
(* computed, not assumed.                                                  *)
(***************************************************************************)
EXTENDS Integers, Sequences, FiniteSets, TLC

----------------------------------------------------------------------------
(* Bounds of the model. *)

\* largest page budget (max_pages) a run is started with
MaxPagesBound == 3
\* number of times extract_emails() may be invoked on one crawler
MaxRuns == 2
\* largest number of slashes a path of a studied URL ends with
MaxSlashes == 2
\* the longest digit run of a studied text
MaxRunLen == 17
\* the most two-digit groups of a studied international number
MaxGroups == 8
\* how far the length of a studied e-mail address is from the limit
EmailMargin == 3

----------------------------------------------------------------------------
(* Strings *)

LowerLetters == <<"a","b","c","d","e","f","g","h","i","j","k","l","m",
                  "n","o","p","q","r","s","t","u","v","w","x","y","z">>
UpperLetters == <<"A","B","C","D","E","F","G","H","I","J","K","L","M",
                  "N","O","P","Q","R","S","T","U","V","W","X","Y","Z">>
DigitChars == {"0","1","2","3","4","5","6","7","8","9"}

Range(s) == {s[i] : i \in 1..Len(s)}

LowerSet == Range(LowerLetters)
UpperSet == Range(UpperLetters)

IsAlpha(c) == c \in LowerSet \cup UpperSet

\* urllib.parse.scheme_chars
SchemeChars == LowerSet \cup UpperSet \cup DigitChars \cup {"+", "-", "."}

\* the lower-case letter of each upper-case letter
LowerOf == [c \in UpperSet |-> LowerLetters[CHOOSE i \in 1..26 : UpperLetters[i] = c]]

\* str.lower() of one character
LowerChar(c) == IF c \in UpperSet THEN LowerOf[c] ELSE c

\* str.lower()
Lower(s) == [i \in 1..Len(s) |-> LowerChar(s[i])]

\* the upper-case letter of each lower-case letter
UpperOf == [c \in LowerSet |-> UpperLetters[CHOOSE i \in 1..26 : LowerLetters[i] = c]]

\* the same text written in upper-case letters
Upper(s) == [i \in 1..Len(s) |-> IF s[i] \in LowerSet THEN UpperOf[s[i]] ELSE s[i]]

\* s.find(c) over positions >= from, 1-based; 0 when absent
FindFrom(s, cs, from) ==
    IF \E i \in from..Len(s) : s[i] \in cs
    THEN CHOOSE i \in from..Len(s) :
            s[i] \in cs /\ \A j \in from..(i-1) : s[j] \notin cs
    ELSE 0

Find(s, c) == FindFrom(s, {c}, 1)

StartsWith(s, p) == Len(s) >= Len(p) /\ SubSeq(s, 1, Len(p)) = p

EndsWith(s, p) == Len(s) >= Len(p) /\ SubSeq(s, Len(s) - Len(p) + 1, Len(s)) = p

\* sub in s
Contains(s, sub) ==
    \E i \in 1..(Len(s) - Len(sub) + 1) : SubSeq(s, i, i + Len(sub) - 1) = sub

\* s.rstrip(c): every trailing c is removed
RStrip(s, c) ==
    LET keep == {i \in 1..Len(s) : s[i] # c}
        last == IF keep = {} THEN 0 ELSE CHOOSE i \in keep : \A j \in keep : j <= i
    IN  SubSeq(s, 1, last)

\* re.sub(r'[^\d]', '', s)
IsDigit(c) == c \in DigitChars

DigitsOnly(s) == SelectSeq(s, IsDigit)

----------------------------------------------------------------------------
(* urllib.parse.urlparse, as _normalize_url and _is_same_domain use it.    *)
(* The alphabet of the model has no ';', '[', ']' or control characters,   *)
(* so params are empty and urlparse does not raise.                        *)

\* urlsplit: the scheme, when the text before the first ':' is one
SplitScheme(url) ==
    LET i == Find(url, ":") IN
    IF i > 1 /\ IsAlpha(url[1]) /\ \A k \in 1..(i-1) : url[k] \in SchemeChars
    THEN [scheme |-> Lower(SubSeq(url, 1, i-1)), rest |-> SubSeq(url, i+1, Len(url))]
    ELSE [scheme |-> <<>>, rest |-> url]

\* urlsplit: the netloc, when the rest starts with '//', up to the first of / ? #
SplitNetloc(p) ==
    LET d == FindFrom(p.rest, {"/","?","#"}, 3) IN
    IF StartsWith(p.rest, <<"/","/">>)
    THEN [scheme |-> p.scheme,
          netloc |-> SubSeq(p.rest, 3, IF d = 0 THEN Len(p.rest) ELSE d - 1),
          rest   |-> IF d = 0 THEN <<>> ELSE SubSeq(p.rest, d, Len(p.rest))]
    ELSE [scheme |-> p.scheme, netloc |-> <<>>, rest |-> p.rest]

\* urlsplit: the fragment, after the first '#'
SplitFragment(p) ==
    LET h == Find(p.rest, "#") IN
    [scheme |-> p.scheme, netloc |-> p.netloc,
     rest     |-> IF h = 0 THEN p.rest ELSE SubSeq(p.rest, 1, h-1),
     fragment |-> IF h = 0 THEN <<>> ELSE SubSeq(p.rest, h+1, Len(p.rest))]

\* urlsplit: the query, after the first '?'; what is left is the path
SplitQuery(p) ==
    LET q == Find(p.rest, "?") IN
    [scheme |-> p.scheme, netloc |-> p.netloc,
     path     |-> IF q = 0 THEN p.rest ELSE SubSeq(p.rest, 1, q-1),
     query    |-> IF q = 0 THEN <<>> ELSE SubSeq(p.rest, q+1, Len(p.rest)),
     fragment |-> p.fragment]

urlparse(url) == SplitQuery(SplitFragment(SplitNetloc(SplitScheme(url))))

\* _normalize_url, on the parsed URL
NormalizeParsed(parsed) ==
    LET prefix     == parsed.scheme \o <<":","/","/">> \o parsed.netloc
        normalized == prefix \o parsed.path
    IN  Lower(IF EndsWith(normalized, <<"/">>) /\ Len(normalized) > Len(prefix)
              THEN RStrip(normalized, "/")
              ELSE normalized)

\* Crawler._normalize_url
_normalize_url(url) == NormalizeParsed(urlparse(url))

\* Crawler._ensure_protocol
_ensure_protocol(url) ==
    IF StartsWith(url, <<"h","t","t","p",":","/","/">>)
         \/ StartsWith(url, <<"h","t","t","p","s",":","/","/">>)
    THEN url
    ELSE <<"h","t","t","p","s",":","/","/">> \o url

\* a host test that lets every link pass
_is_same_domain_any(url, base_domain) == TRUE

\* an _is_same_domain that takes a subdomain for the same domain
_is_same_domain_suffix(url, base_domain) ==
    EndsWith(urlparse(url).netloc, urlparse(base_domain).netloc)

\* Crawler._is_same_domain
_is_same_domain(url, base_domain) == urlparse(url).netloc = urlparse(base_domain).netloc

----------------------------------------------------------------------------
(* The world the crawler runs against: seed URLs, the absolute URLs that   *)
(* anchors resolve to, and the values the extractors return for a page.    *)

Http  == <<"h","t","t","p",":","/","/">>
Https == <<"h","t","t","p","s",":","/","/">>

UrlRoot  == Http \o <<"a","/">>
UrlP     == Http \o <<"a","/","p">>
UrlPUp   == Http \o <<"a","/","P","/">>
UrlPQ    == Http \o <<"a","/","p","?","q">>
UrlK     == Http \o <<"a","/","k">>
UrlSec   == Https \o <<"a","/","p">>
UrlOther == Http \o <<"b","/","p">>
UrlFrag  == Http \o <<"a","/","p","#","f">>
UrlSub   == Http \o <<"s",".","a","/","p">>
UrlAdmin == Http \o <<"a","/","A","d","m","i","n">>

\* values of the url argument of Crawler(url, ...)
Seeds == { <<>>, <<"a">>, <<"/">>, Https \o <<"a">> }

\* response.url of a HEAD request that followed a redirect
RedirectTargets == { UrlPUp }

EmailUp  == <<"A","@","x",".","i","o">>
EmailLow == <<"a","@","x",".","i","o">>
EmailHr  == <<"b","@","x",".","i","o">>
PhoneUs     == <<"+","1","-","5","5","5","-","1","2","3","-","4","5","6","7">>
PhoneUsIntl == <<"+","1"," ","5","5","5"," ","1","2","3"," ","4","5","6","7">>
PhoneFr     == <<"+","3","3"," ","1"," ","4","2"," ","8","6"," ","1","2"," ","3","4">>

\* page_data of _process_page on a 200 response: the lists the extractors
\* return (each list free of identical strings, as dict.fromkeys leaves it)
PageData ==
    { [emails |-> <<EmailUp, EmailLow>>, phones |-> <<PhoneUs, PhoneUsIntl>>],
      [emails |-> <<EmailHr, EmailLow>>, phones |-> <<PhoneFr, PhoneUsIntl>>] }

\* the absolute URLs (urljoin of base and href) of the anchors of a page
AnchorSets ==
    { {UrlP, UrlPUp, UrlOther, UrlSub},
      {UrlRoot, UrlPQ, UrlSec, UrlFrag, UrlK, UrlAdmin, UrlOther, UrlSub} }

\* requests raises for a URL without an http(s) scheme or without a host
HasHttpHost(parsed) ==
    /\ parsed.scheme \in { <<"h","t","t","p">>, <<"h","t","t","p","s">> }
    /\ parsed.netloc # <<>>

CanConnect(u) == HasHttpHost(urlparse(u))

NoData == [emails |-> <<>>, phones |-> <<>>]

\* the body of an error page (a 404 page that shows contact data and links)
ErrorPageData == [emails |-> <<EmailHr>>, phones |-> <<PhoneFr>>]
ErrorPageAnchors == {UrlK}

\* what requests.get(url) of _process_page can do: raise, answer with a
\* status other than 200, or answer 200 with a page
GetOutcomes(u) ==
    { [status |-> "error", data |-> NoData, anchors |-> {}] }
    \cup (IF CanConnect(u)
          THEN { [status |-> "non200", data |-> ErrorPageData, anchors |-> {}] }
               \cup { [status |-> "ok", data |-> d, anchors |-> {}] : d \in PageData }
          ELSE {})

\* what requests.get(current_url) of the link discovery can do
LinkGetOutcomes(u) ==
    { [status |-> "error", data |-> NoData, anchors |-> {}] }
    \cup (IF CanConnect(u)
          THEN { [status |-> "non200", data |-> NoData, anchors |-> ErrorPageAnchors] }
               \cup { [status |-> "ok", data |-> NoData, anchors |-> a] : a \in AnchorSets }
          ELSE {})

\* what requests.head(url) of _get_final_url can do: raise, or answer with
\* response.url the url itself (no redirect) or the target of a redirect
HeadOutcomes(u) ==
    { [status |-> "error", url |-> <<>>] }
    \cup (IF CanConnect(u)
          THEN { [status |-> "ok", url |-> t] : t \in {u} \cup RedirectTargets }
          ELSE {})

\* a _get_final_url that gives up the URL when the HEAD request fails
_get_final_url_none(u, outcome) ==
    IF outcome.status = "ok" THEN outcome.url ELSE <<>>

\* Crawler._get_final_url, for the outcome of its HEAD request
_get_final_url(u, outcome) ==
    IF outcome.status = "ok" THEN outcome.url ELSE u

----------------------------------------------------------------------------
(* Value-level deduplication *)

\* Crawler._normalize_phone_for_dedup
_normalize_phone_for_dedup(phone) == DigitsOnly(phone)

\* the key _is_duplicate and _add_result compute for a value
ValueKey(item_type, value) ==
    IF item_type = "email" THEN Lower(value) ELSE _normalize_phone_for_dedup(value)

\* a duplicate check that compares the value as written, not its key
_is_duplicate_raw(seen, item_type, value) == value \in seen

\* Crawler._is_duplicate
_is_duplicate(seen, item_type, value) == ValueKey(item_type, value) \in seen

\* TrackingItem
TrackingItem(item_type, value, source_url) ==
    [type |-> item_type, value |-> value, source_url |-> source_url]

\* an _add_result that lets the latest finding of a key replace the first
_add_result_last(R, item_type, value, source_url) ==
    IF ~_is_duplicate(R.seen, item_type, value)
    THEN [results |-> Append(R.results, TrackingItem(item_type, value, source_url)),
          seen    |-> R.seen \cup {ValueKey(item_type, value)}]
    ELSE [results |->
            [n \in DOMAIN R.results |->
                IF ValueKey(R.results[n].type, R.results[n].value)
                     = ValueKey(item_type, value)
                THEN TrackingItem(item_type, value, source_url)
                ELSE R.results[n]],
          seen |-> R.seen]

\* an _add_result that records the value as it is written, not its key
_add_result_written(R, item_type, value, source_url) ==
    IF ~_is_duplicate(R.seen, item_type, value)
    THEN [results |-> Append(R.results, TrackingItem(item_type, value, source_url)),
          seen    |-> R.seen \cup {value}]
    ELSE R

\* Crawler._add_result on R = [results, seen]
_add_result(R, item_type, value, source_url) ==
    IF ~_is_duplicate(R.seen, item_type, value)
    THEN [results |-> Append(R.results, TrackingItem(item_type, value, source_url)),
          seen    |-> R.seen \cup {ValueKey(item_type, value)}]
    ELSE R

\* for value in values: self._add_result(item_type, value, source_url)
RECURSIVE AddAll(_, _, _, _)
AddAll(R, item_type, values, source_url) ==
    IF values = <<>> THEN R
    ELSE AddAll(_add_result(R, item_type, Head(values), source_url),
                item_type, Tail(values), source_url)

\* a crawl loop that attributes a finding to the normalized key
ResultSource_key(current_url, normalized_url) == normalized_url

\* the source_url the crawl loop passes to _add_result
ResultSource(current_url, normalized_url) == current_url

\* the two result loops that follow _process_page
AddPageData(R, data, current_url, normalized_url) ==
    AddAll(AddAll(R, "email", data.emails, ResultSource(current_url, normalized_url)),
           "phone", data.phones, ResultSource(current_url, normalized_url))

----------------------------------------------------------------------------
(* Link discovery *)

\* the substrings that exclude a link
Denylist ==
    { <<"#">>,
      <<"j","a","v","a","s","c","r","i","p","t",":">>,
      <<"m","a","i","l","t","o",":">>,
      <<"t","e","l",":">>,
      <<".","p","d","f">>,
      <<".","d","o","c">>,
      <<".","d","o","c","x">>,
      <<".","j","p","g">>,
      <<".","j","p","e","g">>,
      <<".","p","n","g">>,
      <<".","g","i","f">>,
      <<".","c","s","s">>,
      <<".","j","s">>,
      <<".","x","m","l">>,
      <<".","r","s","s">>,
      <<"l","o","g","o","u","t">>,
      <<"a","d","m","i","n">>,
      <<"l","o","g","i","n">>,
      <<"r","e","g","i","s","t","e","r">>,
      <<"s","i","g","n","u","p">>,
      <<"s","i","g","n","i","n">> }

\* a filter that looks for the substrings in the URL as written
IsExcluded_cased(absolute_url) ==
    \E exclude \in Denylist : Contains(absolute_url, exclude)

\* any(exclude in absolute_url.lower() for exclude in [...])
IsExcluded(absolute_url) ==
    \E exclude \in Denylist : Contains(Lower(absolute_url), exclude)

\* Crawler._extract_internal_links, on the resolved anchors of the page
_extract_internal_links(anchors, base_url, visited) ==
    { absolute_url \in anchors :
        /\ _is_same_domain(absolute_url, base_url)
        /\ _normalize_url(absolute_url) \notin visited
        /\ ~IsExcluded(absolute_url) }

----------------------------------------------------------------------------
(* The crawler *)

VARIABLES
    url,            \* self.url
    final_url,      \* self.final_url
    recursive,      \* self.recursive
    max_pages,      \* self.max_pages
    visited_urls,   \* self.visited_urls
    results,        \* self.results
    seen_values,    \* self._seen_values
    urls_to_visit,  \* local urls_to_visit of _crawl_and_extract
    page_count,     \* local page_count of _crawl_and_extract
    current_url,    \* local current_url of _crawl_and_extract
    pc,             \* where the caller and _crawl_and_extract stand
    fetched,        \* fetch() has been called
    runs,           \* number of calls of extract_emails() so far
    offered,        \* the anchors the link discovery of this iteration read
    log,            \* history: the sleeps and GET requests issued, in order
    head,           \* history: what the HEAD request of the fetch() under study did
    norm,           \* the calls of _normalize_url under study (NormSpec)
    phone,          \* the call of _extract_phones under study (PhoneSpec)
    email           \* the page whose e-mail addresses are under study (EmailSpec)

vars == <<url, final_url, recursive, max_pages, visited_urls, results, seen_values,
          urls_to_visit, page_count, current_url, pc, fetched, runs, offered, log,
          head, norm, phone, email>>

\* the variables of the specifications that study one function alone
pure == <<norm, phone, email>>

NoHead == [status |-> "none", url |-> <<>>]

\* no call under study
NoNorm == [stage |-> "none"]
NoPhone == [stage |-> "none"]
NoEmail == [stage |-> "none"]

\* the state of a crawler as __init__ leaves it, no method called
Constructed(seed, rec, budget) ==
    /\ url = seed
    /\ final_url = seed
    /\ recursive = rec
    /\ max_pages = budget
    /\ visited_urls = {}
    /\ results = <<>>
    /\ seen_values = {}
    /\ urls_to_visit = {}
    /\ page_count = 0
    /\ current_url = <<>>
    /\ pc = "idle"
    /\ fetched = FALSE
    /\ runs = 0
    /\ offered = {}
    /\ log = <<>>
    /\ head = NoHead

\* the variables of the crawl
crawl == <<url, final_url, recursive, max_pages, visited_urls, results, seen_values,
           urls_to_visit, page_count, current_url, pc, fetched, runs, offered, log,
           head>>

config == <<recursive, max_pages>>

\* Crawler.__init__
Init ==
    /\ \E seed \in Seeds, rec \in BOOLEAN, budget \in 0..MaxPagesBound :
          Constructed(seed, rec, budget)
    /\ norm = NoNorm
    /\ phone = NoPhone
    /\ email = NoEmail

SleepEvent(run) ==
    [op |-> "sleep", run |-> run, url |-> <<>>, purpose |-> "delay",
     status |-> "none", data |-> NoData]

\* a GET request: what it was for, how it ended, the contact data the
\* extractors returned for its page
GetEvent(run, u, purpose, status, data) ==
    [op |-> "get", run |-> run, url |-> u, purpose |-> purpose,
     status |-> status, data |-> data]

\* _process_page: the politeness delay, time.sleep(self.delay) when
\* len(self.visited_urls) > 0
PolitenessDelay(visited, run) ==
    IF Cardinality(visited) > 0 THEN <<SleepEvent(run)>> ELSE <<>>

\* a _process_page that extracts from the body of any response
PageDataOf_any(outcome) == outcome.data

\* _process_page: the page_data returned for the outcome of its GET
PageDataOf(outcome) ==
    IF outcome.status = "ok" THEN outcome.data ELSE NoData

\* _process_page(url), called with self.visited_urls = visited: the events
\* it adds to the history
ProcessPageEvents(u, visited, run, outcome) ==
    PolitenessDelay(visited, run)
      \o <<GetEvent(run, u, "extract", outcome.status, PageDataOf(outcome))>>

\* a crawl that does not record the page as visited
MarkVisited_skip(visited, normalized_url) == visited

\* self.visited_urls.add(normalized_url)
MarkVisited(visited, normalized_url) == visited \cup {normalized_url}

\* Crawler.fetch, which the caller invokes once, before any extraction, for
\* one outcome of its HEAD request
FetchWith(outcome) ==
    /\ pc \in {"idle", "raised"}
    /\ ~fetched
    /\ fetched' = TRUE
    /\ url' = _ensure_protocol(url)
    /\ final_url' = _get_final_url(url', outcome)
    /\ UNCHANGED <<pure, config, visited_urls, results, seen_values, urls_to_visit,
                   page_count, current_url, pc, runs, offered, log>>

\* Crawler.fetch
Fetch ==
    /\ \E outcome \in HeadOutcomes(_ensure_protocol(url)) : FetchWith(outcome)
    /\ UNCHANGED head

CanExtract == pc \in {"idle", "raised", "done"} /\ runs < MaxRuns

\* _crawl_and_extract: if not self.final_url: raise RuntimeError
ExtractRaise ==
    /\ CanExtract
    /\ final_url = <<>>
    /\ runs' = runs + 1
    /\ pc' = "raised"
    /\ UNCHANGED <<pure, head, url, final_url, config, visited_urls, results, seen_values,
                   urls_to_visit, page_count, current_url, fetched, offered, log>>

\* _crawl_and_extract, recursive mode: the set-up of the loop
StartRecursive ==
    /\ CanExtract
    /\ final_url # <<>>
    /\ recursive
    /\ runs' = runs + 1
    /\ urls_to_visit' = {final_url}
    /\ page_count' = 0
    /\ pc' = "loop"
    /\ UNCHANGED <<pure, head, url, final_url, config, visited_urls, results, seen_values,
                   current_url, fetched, offered, log>>

\* the while condition of the crawl loop
LoopCondition == urls_to_visit # {} /\ page_count < max_pages

\* the crawl loop ends
LoopExit ==
    /\ pc = "loop"
    /\ ~LoopCondition
    /\ pc' = "done"
    /\ offered' = {}
    /\ UNCHANGED <<pure, head, url, final_url, config, visited_urls, results, seen_values,
                   urls_to_visit, page_count, current_url, fetched, runs, log>>

\* a loop that reads an element of the set and leaves it there
QueueAfterPop_keep(queue, u) == queue

\* urls_to_visit.pop() leaves the set without the popped URL
QueueAfterPop(queue, u) == queue \ {u}

\* a visited test that finds no URL visited
AlreadyVisited_never(visited, normalized_url) == FALSE

\* if normalized_url in self.visited_urls
AlreadyVisited(visited, normalized_url) == normalized_url \in visited

\* one iteration that pops an already visited URL: continue
PopVisited ==
    /\ pc = "loop"
    /\ LoopCondition
    /\ \E u \in urls_to_visit :
        /\ AlreadyVisited(visited_urls, _normalize_url(u))
        /\ urls_to_visit' = QueueAfterPop(urls_to_visit, u)
        /\ current_url' = u
    /\ offered' = {}
    /\ UNCHANGED <<pure, head, url, final_url, config, visited_urls, results, seen_values,
                   page_count, pc, fetched, runs, log>>

\* a loop that fetches the links of every page it processed
AfterPage_always(count) == "links"

\* the page budget left after a page decides whether its links are fetched
AfterPage(count) == IF count < max_pages THEN "links" ELSE "loop"

\* one iteration that pops a new URL: mark it visited, count it, process
\* the page and record what it yields
PopNew ==
    /\ pc = "loop"
    /\ LoopCondition
    /\ \E u \in urls_to_visit :
        LET normalized_url == _normalize_url(u) IN
        /\ ~AlreadyVisited(visited_urls, normalized_url)
        /\ urls_to_visit' = QueueAfterPop(urls_to_visit, u)
        /\ current_url' = u
        /\ visited_urls' = MarkVisited(visited_urls, normalized_url)
        /\ page_count' = page_count + 1
        /\ \E outcome \in GetOutcomes(u) :
            LET R == AddPageData([results |-> results, seen |-> seen_values],
                                 PageDataOf(outcome), u, normalized_url)
            IN  /\ log' = log \o ProcessPageEvents(u, visited_urls', runs, outcome)
                /\ results' = R.results
                /\ seen_values' = R.seen
        /\ pc' = AfterPage(page_count')
    /\ offered' = {}
    /\ UNCHANGED <<pure, head, url, final_url, config, fetched, runs>>

\* the anchors link discovery reads: those of a 200 response only
AnchorsOf(outcome) == IF outcome.status = "ok" THEN outcome.anchors ELSE {}

\* the link discovery of the page just processed: a second GET of it
DiscoverLinks ==
    /\ pc = "links"
    /\ \E outcome \in LinkGetOutcomes(current_url) :
        /\ log' = Append(log, GetEvent(runs, current_url, "links", outcome.status,
                                       NoData))
        /\ offered' = AnchorsOf(outcome)
        /\ urls_to_visit' =
             urls_to_visit
               \cup _extract_internal_links(AnchorsOf(outcome), current_url, visited_urls)
    /\ pc' = "loop"
    /\ UNCHANGED <<pure, head, url, final_url, config, visited_urls, results, seen_values,
                   page_count, current_url, fetched, runs>>

\* _crawl_and_extract, non-recursive mode: only the final page
CrawlSingle ==
    /\ CanExtract
    /\ final_url # <<>>
    /\ ~recursive
    /\ runs' = runs + 1
    /\ LET normalized_url == _normalize_url(final_url) IN
        /\ visited_urls' = MarkVisited(visited_urls, normalized_url)
        /\ \E outcome \in GetOutcomes(final_url) :
            LET R == AddPageData([results |-> results, seen |-> seen_values],
                                 PageDataOf(outcome), final_url, normalized_url)
            IN  /\ log' = log \o ProcessPageEvents(final_url, visited_urls', runs', outcome)
                /\ results' = R.results
                /\ seen_values' = R.seen
    /\ pc' = "done"
    /\ UNCHANGED <<pure, head, url, final_url, config, urls_to_visit, page_count, current_url,
                   fetched, offered>>

Next ==
    \/ Fetch
    \/ ExtractRaise
    \/ StartRecursive
    \/ CrawlSingle
    \/ LoopExit
    \/ PopVisited
    \/ PopNew
    \/ DiscoverLinks

Spec == Init /\ [][Next]_vars

----------------------------------------------------------------------------
(* fetch() alone: the call on a freshly constructed crawler, or after an   *)
(* extraction that raised, with the outcome of its HEAD request recorded.   *)

\* values of the url argument: those of Seeds, and URLs with http://
FetchSeeds == Seeds \cup { Http \o <<"a">>, UrlP }

FetchInit ==
    /\ \E seed \in FetchSeeds, rec \in BOOLEAN, budget \in 0..MaxPagesBound :
          Constructed(seed, rec, budget)
    /\ norm = NoNorm
    /\ phone = NoPhone
    /\ email = NoEmail

\* Crawler.fetch, and what its HEAD request did
FetchRecorded ==
    \E outcome \in HeadOutcomes(_ensure_protocol(url)) :
        /\ FetchWith(outcome)
        /\ head' = [status |-> outcome.status, url |-> outcome.url]

FetchNext ==
    \/ FetchRecorded
    \/ ExtractRaise

FetchSpec == FetchInit /\ [][FetchNext]_vars

----------------------------------------------------------------------------
(* _normalize_url alone: URLs written from their parts, normalized once    *)
(* and again, and normalized next to a variant that differs in one part.   *)

Slashes(k) == [i \in 1..k |-> "/"]

\* paths: none, absolute, relative, each ending in 0..MaxSlashes slashes
PathStems == { <<>>, <<"/","p">>, <<"/","P">>, <<"/","k">>, <<"p">> }
Paths == { stem \o Slashes(k) : stem \in PathStems, k \in 0..MaxSlashes }

\* the authority: absent, a host, a host with an explicit port
Authorities ==
    { [auth |-> FALSE, netloc |-> <<>>],
      [auth |-> TRUE,  netloc |-> <<"a">>],
      [auth |-> TRUE,  netloc |-> <<"a",":","8","0">>] }

\* a URL written from these parts parses back into them (RFC 3986, 3.3)
WellFormed(parts) ==
    /\ parts.auth => (Len(parts.path) = 0 \/ StartsWith(parts.path, <<"/">>))
    /\ ~parts.auth => ~StartsWith(parts.path, <<"/","/">>)

UrlParts ==
    { parts \in [scheme   : { <<>>, <<"h","t","t","p">>, <<"h","t","t","p","s">> },
                 auth     : BOOLEAN,
                 netloc   : { a.netloc : a \in Authorities },
                 path     : Paths,
                 query    : { <<>>, <<"q">> },
                 fragment : { <<>>, <<"f">> }] :
        /\ [auth |-> parts.auth, netloc |-> parts.netloc] \in Authorities
        /\ WellFormed(parts) }

\* the URL string of the parts (urllib.parse.urlunsplit)
Unsplit(parts) ==
    (IF parts.scheme = <<>> THEN <<>> ELSE parts.scheme \o <<":">>)
      \o (IF parts.auth THEN <<"/","/">> \o parts.netloc ELSE <<>>)
      \o parts.path
      \o (IF parts.query = <<>> THEN <<>> ELSE <<"?">> \o parts.query)
      \o (IF parts.fragment = <<>> THEN <<>> ELSE <<"#">> \o parts.fragment)

\* the path without one trailing slash, the root path left as it is
StripOneSlash(path) ==
    IF path # <<"/">> /\ EndsWith(path, <<"/">>)
    THEN SubSeq(path, 1, Len(path) - 1)
    ELSE path

\* two paths that are the same up to letter case and one trailing slash on
\* a non-root path
SamePage(p, q) == Lower(StripOneSlash(p)) = Lower(StripOneSlash(q))

\* the ways two URLs differ that leave the key the same
Alike == {"case", "query", "fragment", "slash"}
\* the ways two URLs differ that give different keys
Distinct == {"scheme", "port", "path"}

\* the variants of a URL that differ from it in one respect
Variants(how, parts) ==
    CASE how = "case" ->
           { [parts EXCEPT !.scheme = Upper(@), !.netloc = Upper(@), !.path = Upper(@)] }
      [] how = "query" ->
           { [parts EXCEPT !.query = IF @ = <<>> THEN <<"q">> ELSE <<>>] }
      [] how = "fragment" ->
           { [parts EXCEPT !.fragment = IF @ = <<>> THEN <<"f">> ELSE <<>>] }
      [] how = "slash" ->
           IF parts.path = <<>> \/ EndsWith(parts.path, <<"/">>) THEN {}
           ELSE { [parts EXCEPT !.path = @ \o <<"/">>] }
      [] how = "scheme" ->
           IF parts.scheme = <<>> THEN {}
           ELSE { [parts EXCEPT !.scheme = IF @ = <<"h","t","t","p">>
                                           THEN <<"h","t","t","p","s">>
                                           ELSE <<"h","t","t","p">>] }
      [] how = "port" ->
           IF parts.netloc # <<"a">> THEN {}
           ELSE { [parts EXCEPT !.netloc = <<"a",":","8","0">>] }
      [] how = "path" ->
           { [parts EXCEPT !.path = q] : q \in {r \in Paths : ~SamePage(r, parts.path)} }

NormCall(stage, how, parts, other) ==
    [stage |-> stage, how |-> how, parts |-> parts, other |-> other,
     key |-> <<>>, other_key |-> <<>>, again |-> <<>>]

NormInit ==
    /\ Constructed(<<>>, FALSE, 0)
    /\ phone = NoPhone
    /\ email = NoEmail
    /\ norm \in { NormCall("input", "none", parts, parts) : parts \in UrlParts }

\* key = _normalize_url(url)
Normalize ==
    /\ norm.stage = "input"
    /\ norm' = [norm EXCEPT !.stage = "key",
                            !.key = _normalize_url(Unsplit(norm.parts))]
    /\ UNCHANGED <<crawl, phone, email>>

\* _normalize_url(key)
NormalizeAgain ==
    /\ norm.stage = "key"
    /\ norm' = [norm EXCEPT !.stage = "again", !.again = _normalize_url(norm.key)]
    /\ UNCHANGED <<crawl, phone, email>>

\* the keys of the URL and of a variant of it
NormalizeVariant ==
    /\ norm.stage = "input"
    /\ \E how \in Alike \cup Distinct :
        \E other \in Variants(how, norm.parts) :
            /\ other # norm.parts
            /\ other \in UrlParts \/ how = "case"
            /\ WellFormed(other)
            /\ norm' = [NormCall("pair", how, norm.parts, other) EXCEPT
                            !.key = _normalize_url(Unsplit(norm.parts)),
                            !.other_key = _normalize_url(Unsplit(other))]
    /\ UNCHANGED <<crawl, phone, email>>

NormNext ==
    \/ Normalize
    \/ NormalizeAgain
    \/ NormalizeVariant

NormSpec == NormInit /\ [][NormNext]_vars

----------------------------------------------------------------------------
(* Reading the history *)

IsGet(i) == log[i].op = "get"

IsExtractGet(i) == IsGet(i) /\ log[i].purpose = "extract"

\* the GET requests of run r
GetsOfRun(r) == {i \in DOMAIN log : IsGet(i) /\ log[i].run = r}

\* the (type, value) pairs the page of request i yielded
YieldItems(i) ==
    {<<"email", v>> : v \in Range(log[i].data.emails)}
      \cup {<<"phone", v>> : v \in Range(log[i].data.phones)}

\* the value keys the page of request i yielded
YieldKeys(i) == {ValueKey(y[1], y[2]) : y \in YieldItems(i)}

ItemKey(item) == ValueKey(item.type, item.value)

Min(S) == CHOOSE m \in S : \A n \in S : m <= n

\* the extraction requests of run r, one per page the run processed
PagesOfRun(r) == {i \in GetsOfRun(r) : IsExtractGet(i)}

\* requests i < j of one run that fetched two different pages for extraction
TwoPages(i, j) ==
    /\ i < j
    /\ IsExtractGet(i) /\ IsExtractGet(j)
    /\ log[i].run = log[j].run
    /\ log[i].url # log[j].url

----------------------------------------------------------------------------
(* _extract_phones alone: the three regular expressions, the validation    *)
(* and the formatting, on texts that hold one US number.  A position p is  *)
(* the index of the next character to read.                                *)

\* \w of re
IsWord(c) == c \in LowerSet \cup UpperSet \cup DigitChars \cup {"_"}

\* \b at position p
WordBoundary(t, p) ==
    (p > 1 /\ IsWord(t[p-1])) # (p <= Len(t) /\ IsWord(t[p]))

\* [-.\s]
Separators == {"-", ".", " "}

\* the characters of s at the positions in keep, in order
KeepAt(s, keep) ==
    LET upto[i \in 0..Len(s)] ==
            IF i = 0 THEN <<>>
            ELSE IF i \in keep THEN Append(upto[i-1], s[i]) ELSE upto[i-1]
    IN  upto[Len(s)]

\* the number of digits that follow from position p
DigitRun(t, p) ==
    LET others == {q \in p..Len(t) : t[q] \notin DigitChars}
    IN  IF others = {} THEN Len(t) - p + 1 ELSE Min(others) - p

\* c? for one character c of cs, greedy: the position after it
SkipOptional(t, p, cs) == IF p <= Len(t) /\ t[p] \in cs THEN p + 1 ELSE p

NoMatch == [found |-> FALSE, end |-> 0, groups |-> <<>>]

\* \(?([0-9]{3})\)?[-.\s]?([0-9]{3})[-.\s]?([0-9]{4})\b read from p.  No
\* optional character can be given back: what follows it is a digit.
UsNumberAt(t, p) ==
    LET a == SkipOptional(t, p, {"("})
        b == SkipOptional(t, a + 3, {")"})
        c == SkipOptional(t, b, Separators)
        d == SkipOptional(t, c + 3, Separators)
    IN  IF /\ DigitRun(t, a) >= 3
           /\ DigitRun(t, c) >= 3
           /\ DigitRun(t, d) >= 4
           /\ WordBoundary(t, d + 4)
        THEN [found |-> TRUE, end |-> d + 4,
              groups |-> <<SubSeq(t, a, a + 2), SubSeq(t, c, c + 2),
                           SubSeq(t, d, d + 3)>>]
        ELSE NoMatch

\* patterns[0] at p: \b\+1[-.\s]? and the US number
UsWithCountryCodeAt(t, p) ==
    IF /\ WordBoundary(t, p)
       /\ p + 1 <= Len(t) /\ t[p] = "+" /\ t[p+1] = "1"
    THEN UsNumberAt(t, SkipOptional(t, p + 2, Separators))
    ELSE NoMatch

\* patterns[1] at p: \b and the US number
UsWithoutCountryCodeAt(t, p) ==
    IF WordBoundary(t, p) THEN UsNumberAt(t, p) ELSE NoMatch

RECURSIVE Flatten(_)
Flatten(seqs) == IF seqs = <<>> THEN <<>> ELSE Head(seqs) \o Flatten(Tail(seqs))

\* c? greedy: the positions the matcher tries after it, in its order
OptionalEnds(t, p, cs) ==
    IF p <= Len(t) /\ t[p] \in cs THEN <<p + 1, p>> ELSE <<p>>

\* \d{lo,hi} greedy: the positions the matcher tries after it, in its order
DigitsEnds(t, p, lo, hi) ==
    LET most == IF DigitRun(t, p) < hi THEN DigitRun(t, p) ELSE hi
    IN  IF most < lo THEN <<>> ELSE [k \in 1..(most - lo + 1) |-> p + most - k + 1]

\* (\(?\d{1,4}\)?[\s.-]?) read from p
GroupEnds(t, p) ==
    LET open   == OptionalEnds(t, p, {"("})
        digits == Flatten([i \in 1..Len(open) |-> DigitsEnds(t, open[i], 1, 4)])
        close  == Flatten([i \in 1..Len(digits) |-> OptionalEnds(t, digits[i], {")"})])
    IN  Flatten([i \in 1..Len(close) |-> OptionalEnds(t, close[i], Separators)])

\* the value of F at each of the positions 1..n, as a sequence
Table(n, F(_)) == [i \in 1..n |-> F(i)] \o <<>>

\* where the match ends from the first of the positions at which the rest
\* of the pattern matches; rest[q] is where it ends from q, 0 when it fails
FirstSuccess(ends, rest) ==
    LET good == SelectSeq(ends, LAMBDA q : rest[q] # 0)
    IN  IF good = <<>> THEN 0 ELSE rest[Head(good)]

\* \d{2,4}\b from every position
LastDigits(t) ==
    Table(Len(t) + 1,
          LAMBDA p : LET ends == SelectSeq(DigitsEnds(t, p, 2, 4),
                                           LAMBDA e : WordBoundary(t, e))
                     IN  IF ends = <<>> THEN 0 ELSE Head(ends))

\* (...){2,6}\d{2,4}\b from every position after done repetitions: the
\* matcher first tries one more repetition, then the last digits
RECURSIVE GroupsThenLast(_, _)
GroupsThenLast(t, done) ==
    LET last == LastDigits(t) IN
    IF done = 6 THEN last
    ELSE LET more == GroupsThenLast(t, done + 1)
         IN  Table(Len(t) + 1,
                   LAMBDA p : LET again == FirstSuccess(GroupEnds(t, p), more)
                              IN  IF again # 0 THEN again
                                  ELSE IF done >= 2 THEN last[p] ELSE 0)

\* patterns[2] at p: \+(\d{1,4})[\s.-]?(\(?\d{1,4}\)?[\s.-]?){2,6}\d{2,4}\b,
\* the first success in the order in which the matcher backtracks
InternationalAt(t, p) ==
    IF ~(p <= Len(t) /\ t[p] = "+") THEN NoMatch
    ELSE
      LET code == DigitsEnds(t, p + 1, 1, 4)
          sep  == Flatten([i \in 1..Len(code) |-> OptionalEnds(t, code[i], Separators)])
          end  == FirstSuccess(sep, GroupsThenLast(t, 0))
      IN  IF end = 0 THEN NoMatch
          ELSE [found |-> TRUE, end |-> end, groups |-> <<>>]

MatchAt(idx, t, p) ==
    CASE idx = 0 -> UsWithCountryCodeAt(t, p)
      [] idx = 1 -> UsWithoutCountryCodeAt(t, p)
      [] idx = 2 -> InternationalAt(t, p)

\* the matches from position from on, leftmost first and not overlapping;
\* at[p] is the match of the pattern at position p
RECURSIVE MatchesFrom(_, _, _), MatchAndRest(_, _, _)
MatchesFrom(t, at, from) ==
    IF \A p \in from..Len(t) : ~at[p].found THEN <<>>
    ELSE MatchAndRest(t, at, Min({p \in from..Len(t) : at[p].found}))

\* the match at p and those that follow it
MatchAndRest(t, at, p) ==
    <<[original_match |-> SubSeq(t, p, at[p].end - 1), groups |-> at[p].groups]>>
      \o MatchesFrom(t, at, at[p].end)

\* re.finditer(patterns[idx], text, re.IGNORECASE)
FindIter(idx, t) ==
    MatchesFrom(t, Table(Len(t), LAMBDA p : MatchAt(idx, t, p)), 1)

\* Crawler._is_valid_phone
_is_valid_phone(ph) ==
    LET digits   == DigitsOnly(ph)
        code     == IF DigitRun(ph, 2) < 4 THEN DigitRun(ph, 2) ELSE 4
        after_cc == SubSeq(ph, 2 + code, Len(ph))
    IN  /\ Len(digits) >= 10 /\ Len(digits) <= 15
        /\ digits # ph
        /\ \E i \in 1..Len(ph) : ph[i] \in {" ", "-", ".", "(", ")", "+"}
        /\ (ph[1] = "+" /\ code >= 1) =>
               \E i \in 1..Len(after_cc) : after_cc[i] \in {" ", "-", ".", "(", ")"}

\* str.strip()
Strip(s) ==
    LET solid == {i \in 1..Len(s) : s[i] # " "}
    IN  IF solid = {} THEN <<>>
        ELSE SubSeq(s, Min(solid), CHOOSE i \in solid : \A j \in solid : j <= i)

\* re.sub(r'\s+', ' ', s)
CollapseSpaces(s) == KeepAt(s, {i \in 1..Len(s) : ~(s[i] = " " /\ i > 1 /\ s[i-1] = " ")})

\* re.sub(r'[-.]+', ' ', s)
DashesToSpace(s) ==
    LET first == KeepAt(s, {i \in 1..Len(s) :
                              ~(s[i] \in {"-", "."} /\ i > 1 /\ s[i-1] \in {"-", "."})})
    IN  [i \in 1..Len(first) |-> IF first[i] \in {"-", "."} THEN " " ELSE first[i]]

\* re.sub(r'[()]', '', s)
RemoveParentheses(s) == KeepAt(s, {i \in 1..Len(s) : s[i] \notin {"(", ")"}})

\* Crawler._clean_international_phone
_clean_international_phone(ph) ==
    Strip(CollapseSpaces(RemoveParentheses(
        CollapseSpaces(DashesToSpace(CollapseSpaces(Strip(ph)))))))

\* a formatter that reports a US number as it is written in the text
FormatUs_written(groups, original_match) == original_match

\* f"+1-{groups[0]}-{groups[1]}-{groups[2]}"
FormatUs(groups, original_match) ==
    <<"+", "1", "-">> \o groups[1] \o <<"-">> \o groups[2] \o <<"-">> \o groups[3]

\* the value reported for one match of patterns[idx]
PhoneOf(idx, m) ==
    IF idx = 2 THEN _clean_international_phone(m.original_match)
    ELSE FormatUs(m.groups, m.original_match)

\* the value of each of the matches
PhonesOf(idx, matches) == [i \in 1..Len(matches) |-> PhoneOf(idx, matches[i])]

\* the matches of patterns[idx] that pass if self._is_valid_phone(...)
ValidMatches(idx, t) ==
    SelectSeq(FindIter(idx, t), LAMBDA m : _is_valid_phone(m.original_match))

\* the values appended for patterns[idx]: those of its valid matches
PhonesOfPattern(idx, t) == PhonesOf(idx, ValidMatches(idx, t))

\* the matched text of each of the matches
OriginalsOf(matches) == [i \in 1..Len(matches) |-> matches[i].original_match]

\* the matched texts that pass _is_valid_phone, of the three patterns
AcceptedMatches(t) ==
    Flatten([k \in 1..3 |-> OriginalsOf(ValidMatches(k - 1, t))])

\* list(dict.fromkeys(items))
Unique(items) == KeepAt(items, {i \in 1..Len(items) : \A j \in 1..(i-1) : items[j] # items[i]})

\* Crawler._extract_phones
_extract_phones(t) ==
    Unique(Flatten([k \in 1..3 |-> PhonesOfPattern(k - 1, t)]))

\* the forms in which a text writes a US number
UsForms == {"parentheses", "dashes", "country code", "dots"}

AreaCodes == { <<"5","5","5">>, <<"2","1","2">> }
Exchanges == { <<"1","2","3">>, <<"5","5","5">> }
LineNumbers == { <<"4","5","6","7">>, <<"0","1","9","9">> }

\* the number in each form: (DDD) DDD-DDDD, DDD-DDD-DDDD, +1-DDD-DDD-DDDD,
\* DDD.DDD.DDDD
Written(form, area, exchange, line) ==
    CASE form = "parentheses" ->
           <<"(">> \o area \o <<")", " ">> \o exchange \o <<"-">> \o line
      [] form = "dashes" ->
           area \o <<"-">> \o exchange \o <<"-">> \o line
      [] form = "country code" ->
           <<"+", "1", "-">> \o area \o <<"-">> \o exchange \o <<"-">> \o line
      [] form = "dots" ->
           area \o <<".">> \o exchange \o <<".">> \o line

\* the page text before and after the number
TextBefore == { <<>>, <<"c","a","l","l"," ">>, <<"f","a","x",":">> }
TextAfter  == { <<>>, <<" ","n","o","w">>, <<".">> }

\* the value the claim names: +1-DDD-DDD-DDDD
Canonical(area, exchange, line) ==
    <<"+", "1", "-">> \o area \o <<"-">> \o exchange \o <<"-">> \o line

PhoneCall(stage, form, area, exchange, line, text) ==
    [stage |-> stage, form |-> form, area |-> area, exchange |-> exchange,
     line |-> line, text |-> text, out |-> <<>>, items |-> <<>>, accepted |-> <<>>]

PhoneInit ==
    /\ Constructed(<<>>, FALSE, 0)
    /\ norm = NoNorm
    /\ email = NoEmail
    /\ phone \in { PhoneCall("input", form, area, exchange, line,
                             before \o Written(form, area, exchange, line) \o after) :
                     form \in UsForms, area \in AreaCodes, exchange \in Exchanges,
                     line \in LineNumbers, before \in TextBefore, after \in TextAfter }

\* phones = self._extract_phones(text_content)
ExtractPhones ==
    /\ phone.stage = "input"
    /\ phone' = [phone EXCEPT !.stage = "extracted",
                                !.out = _extract_phones(phone.text),
                                !.accepted = AcceptedMatches(phone.text)]
    /\ UNCHANGED <<crawl, norm, email>>

\* for phone in page_data["phones"]: self._add_result("phone", phone, url)
RecordPhones ==
    /\ phone.stage = "extracted"
    /\ phone' = [phone EXCEPT
                    !.stage = "recorded",
                    !.items = AddAll([results |-> <<>>, seen |-> {}],
                                     "phone", phone.out, UrlRoot).results]
    /\ UNCHANGED <<crawl, norm, email>>

PhoneNext ==
    \/ ExtractPhones
    \/ RecordPhones

PhoneSpec == PhoneInit /\ [][PhoneNext]_vars

----------------------------------------------------------------------------
(* _extract_phones on digit runs: a run of digits with a label glued to    *)
(* it, and an international number written in groups of two digits.        *)

TenDigits == <<"1","2","3","4","5","6","7","8","9","0">>

\* the run 1234567890123... of n digits
RunOf(n) == [i \in 1..n |-> TenDigits[((i - 1) % 10) + 1]]

\* what stands directly before the run
RunLabels ==
    { <<>>, <<"I","D",":"," ">>, <<"I","D">>, <<"#">>, <<"+">>, <<"x","+">>,
      <<"(">>, <<"x","(">>, <<"t","e","l",":">> }

\* what stands directly after the run
RunAfters == { <<>>, <<" ","o","k">>, <<")">> }

\* +C DD DD ... : a country code of code digits and groups groups of two
RECURSIVE Pairs(_, _)
Pairs(from, groups) ==
    IF groups = 0 THEN <<>>
    ELSE <<" ">> \o SubSeq(RunOf(from + 1), from, from + 1) \o Pairs(from + 2, groups - 1)

Spaced(code, groups) == <<"+">> \o RunOf(code) \o Pairs(code + 1, groups)

RunCall(form, label, run, text) ==
    [stage |-> "input", form |-> form, label |-> label, run |-> run, text |-> text,
     out |-> <<>>, items |-> <<>>, accepted |-> <<>>]

RunInit ==
    /\ Constructed(<<>>, FALSE, 0)
    /\ norm = NoNorm
    /\ email = NoEmail
    /\ phone \in
         { RunCall("run", label, RunOf(n), label \o RunOf(n) \o after) :
             label \in RunLabels, n \in 1..MaxRunLen, after \in RunAfters }
         \cup
         { RunCall("spaced", <<>>, <<>>, Spaced(code, groups)) :
             code \in 1..2, groups \in 1..MaxGroups }

RunSpec == RunInit /\ [][PhoneNext]_vars

----------------------------------------------------------------------------
(* _clean_international_phone alone: one number written with one kind of   *)
(* separator between its groups of digits and with parentheses around at   *)
(* most one group, cleaned once and again.  The texts hold no whitespace   *)
(* other than the space.                                                    *)

\* the groups of digits of +33 1 42 86 12 34 and of +44 20 7946 0958
GroupedNumbers ==
    { << <<"3","3">>, <<"1">>, <<"4","2">>, <<"8","6">>, <<"1","2">>, <<"3","4">> >>,
      << <<"4","4">>, <<"2","0">>, <<"7","9","4","6">>, <<"0","9","5","8">> >> }

\* what stands between two groups: a space, two spaces, a dot, a dash
GroupSeparators == { <<" ">>, <<" "," ">>, <<".">>, <<"-">> }

\* how the parentheses around a group meet its neighbours: a separator on
\* both sides, or the parenthesis alone before it, after it, on both sides
Glues == {"none", "before", "after", "both"}

\* group k of the number as the variant writes it, with what precedes it
WrittenGroup(groups, k, sep, wrapped, glue) ==
    LET before == IF k = 1 THEN <<"+">>
                  ELSE IF k = wrapped /\ glue \in {"before", "both"} THEN <<>>
                  ELSE IF k = wrapped + 1 /\ wrapped # 0 /\ glue \in {"after", "both"}
                       THEN <<>>
                  ELSE sep
    IN  before \o (IF k = wrapped THEN <<"(">> \o groups[k] \o <<")">> ELSE groups[k])

\* the number with sep between its groups and group wrapped (0: none) in
\* parentheses
WrittenNumber(groups, sep, wrapped, glue) ==
    Flatten([k \in 1..Len(groups) |-> WrittenGroup(groups, k, sep, wrapped, glue)])

\* the value the claim names: + and the groups, one space between them
SpaceSeparated(groups) == WrittenNumber(groups, <<" ">>, 0, "none")

CleanCall(groups, sep, wrapped, glue, margin) ==
    [stage |-> "input", groups |-> groups, sep |-> sep, wrapped |-> wrapped,
     glue |-> IF wrapped = 0 THEN "none" ELSE glue,
     written |-> margin \o WrittenNumber(groups, sep, wrapped,
                                            IF wrapped = 0 THEN "none" ELSE glue)
                   \o margin,
     out |-> <<>>, again |-> <<>>]

CleanInit ==
    /\ Constructed(<<>>, FALSE, 0)
    /\ norm = NoNorm
    /\ email = NoEmail
    /\ phone \in { CleanCall(groups, sep, wrapped, glue, margin) :
                      groups \in GroupedNumbers, sep \in GroupSeparators,
                      wrapped \in {0, 2, 3, 4}, glue \in Glues,
                      margin \in { <<>>, <<" ">> } }

\* phone = self._clean_international_phone(original_match)
CleanPhone ==
    /\ phone.stage = "input"
    /\ phone' = [phone EXCEPT !.stage = "cleaned",
                                !.out = _clean_international_phone(phone.written)]
    /\ UNCHANGED <<crawl, norm, email>>

\* the cleaned value cleaned again
CleanAgain ==
    /\ phone.stage = "cleaned"
    /\ phone' = [phone EXCEPT !.stage = "again",
                                !.again = _clean_international_phone(phone.out)]
    /\ UNCHANGED <<crawl, norm, email>>

CleanNext ==
    \/ CleanPhone
    \/ CleanAgain

CleanSpec == CleanInit /\ [][CleanNext]_vars

----------------------------------------------------------------------------
(* The e-mail addresses of one page: the visible-text pass and the two     *)
(* mailto passes of _process_page, on pages that hold one address whose    *)
(* length is near the limit of the mailto passes.                          *)

\* if len(email_clean) <= 100
MaxEmailLength == 100

\* [A-Za-z0-9._%+-], [A-Za-z0-9.-] and [A-Za-z]
LocalChars  == LowerSet \cup UpperSet \cup DigitChars \cup {".", "_", "%", "+", "-"}
DomainChars == LowerSet \cup UpperSet \cup DigitChars \cup {".", "-"}
LetterChars == LowerSet \cup UpperSet

\* the number of characters of cs that follow from position p
CharRun(t, p, cs) ==
    LET others == {q \in p..Len(t) : t[q] \notin cs}
    IN  IF others = {} THEN Len(t) - p + 1 ELSE Min(others) - p

\* [A-Za-z0-9._%+-]+@[A-Za-z0-9.-]+\.[A-Za-z]{2,} read from p, followed by \b
\* when bounded: the position after the match, 0 when there is none.  The
\* local part is the whole run (an @ must follow it); the domain gives back
\* characters until a dot with two letters or more follows, the letters
\* until a word boundary follows.
AddressEnd(t, p, bounded) ==
    LET local  == CharRun(t, p, LocalChars)
        start  == p + local + 1
        domain == CharRun(t, start, DomainChars)
        EndAfter(dot) ==
            LET letters == CharRun(t, dot + 1, LetterChars)
                ends    == {dot + 1 + j : j \in 2..letters}
                good    == {e \in ends : bounded => WordBoundary(t, e)}
            IN  IF good = {} THEN 0 ELSE CHOOSE e \in good : \A f \in good : f <= e
        dots   == {d \in (start + 1)..(start + domain - 1) :
                      t[d] = "." /\ EndAfter(d) # 0}
    IN  IF local >= 1 /\ p + local <= Len(t) /\ t[p + local] = "@" /\ dots # {}
        THEN EndAfter(CHOOSE d \in dots : \A e \in dots : e <= d)
        ELSE 0

\* email_pattern at p: \b, the address, \b
EmailAt(t, p) ==
    LET end == IF WordBoundary(t, p) THEN AddressEnd(t, p, TRUE) ELSE 0
    IN  IF end = 0 THEN NoMatch
        ELSE [found |-> TRUE, end |-> end, groups |-> <<SubSeq(t, p, end - 1)>>]

Mailto == <<"m","a","i","l","t","o",":">>

\* mailto_pattern at p, re.IGNORECASE: mailto: and the address as group 1
MailtoAt(t, p) ==
    LET end == IF p + 6 <= Len(t) /\ Lower(SubSeq(t, p, p + 6)) = Mailto
               THEN AddressEnd(t, p + 7, FALSE) ELSE 0
    IN  IF end = 0 THEN NoMatch
        ELSE [found |-> TRUE, end |-> end, groups |-> <<SubSeq(t, p + 7, end - 1)>>]

\* group 1 of each of the matches
FirstGroups(matches) == [i \in 1..Len(matches) |-> matches[i].groups[1]]

\* Crawler._extract_emails_from_text
_extract_emails_from_text(text) ==
    Unique(FirstGroups(
        MatchesFrom(text, Table(Len(text), LAMBDA p : EmailAt(text, p)), 1)))

\* if len(email_clean) <= 100
IsShortEnough(address) == Len(address) <= MaxEmailLength

\* the addresses a mailto pass keeps: email.strip() when it is short enough
KeptAddresses(found) ==
    SelectSeq([i \in 1..Len(found) |-> Strip(found[i])], IsShortEnough)

\* Crawler._extract_emails_from_mailto: re.findall on the whole content and,
\* when the content looks like HTML, re.search on the href of every anchor
\* whose href starts with mailto:
_extract_emails_from_mailto(html, hrefs) ==
    LET whole   == FirstGroups(
                     MatchesFrom(html, Table(Len(html), LAMBDA p : MailtoAt(html, p)), 1))
        anchors == IF Contains(html, <<"<">>) /\ Contains(html, <<">">>)
                   THEN SelectSeq(hrefs, LAMBDA h : MailtoAt(h, 1).found)
                   ELSE <<>>
        linked  == [i \in 1..Len(anchors) |-> MailtoAt(anchors[i], 1).groups[1]]
    IN  Unique(KeptAddresses(whole) \o KeptAddresses(linked))

\* _process_page: all_emails of a page with the content html, the visible
\* text soup.get_text() and the href attributes of its anchors
AllEmails(page) ==
    Unique(_extract_emails_from_text(page.visible_text)
             \o _extract_emails_from_mailto(page.html, page.hrefs))

\* an address of n characters: a local part of letters a, then @x. and tld
Address(n, tld) ==
    [i \in 1..(n - 3 - Len(tld)) |-> "a"] \o <<"@", "x", ".">> \o tld

TopLevelDomains == { <<"i","o">>, <<"c","o","m">> }

\* mailto: as a page writes it
MailtoSpellings == { Mailto, <<"M","A","I","L","T","O",":">> }

\* where the page holds the address
Placements == {"text", "mailto", "both"}

\* the visible text before the address
EmailTextBefore == { <<>>, <<"t","o"," ">> }

Anchor(href, text) ==
    <<"<","a"," ","h","r","e","f","=","\"">> \o href \o <<"\"",">">> \o text
      \o <<"<","/","a",">">>

\* a page that holds the address in its visible text, in the href of an
\* anchor, or in both
PageWith(placement, address, spelling, before) ==
    CASE placement = "text" ->
           [html |-> <<"<","p",">">> \o before \o address \o <<"<","/","p",">">>,
            visible_text |-> before \o address,
            hrefs |-> <<>>]
      [] placement = "mailto" ->
           [html |-> Anchor(spelling \o address, <<"m","a","i","l">>),
            visible_text |-> <<"m","a","i","l">>,
            hrefs |-> <<spelling \o address>>]
      [] placement = "both" ->
           [html |-> Anchor(spelling \o address, before \o address),
            visible_text |-> before \o address,
            hrefs |-> <<spelling \o address>>]

EmailCall(placement, address, page) ==
    [stage |-> "input", placement |-> placement, address |-> address, page |-> page,
     out |-> <<>>, items |-> <<>>]

EmailInit ==
    /\ Constructed(<<>>, FALSE, 0)
    /\ norm = NoNorm
    /\ phone = NoPhone
    /\ email \in
         { EmailCall(placement, Address(n, tld),
                     PageWith(placement, Address(n, tld), spelling, before)) :
             placement \in Placements,
             n \in (MaxEmailLength - EmailMargin)..(MaxEmailLength + EmailMargin),
             tld \in TopLevelDomains, spelling \in MailtoSpellings,
             before \in EmailTextBefore }

\* all_emails = list(dict.fromkeys(emails_from_text + emails_from_mailto))
ExtractEmails ==
    /\ email.stage = "input"
    /\ email' = [email EXCEPT !.stage = "extracted", !.out = AllEmails(email.page)]
    /\ UNCHANGED <<crawl, norm, phone>>

\* for email in page_data["emails"]: self._add_result("email", email, url)
RecordEmails ==
    /\ email.stage = "extracted"
    /\ email' = [email EXCEPT
                    !.stage = "recorded",
                    !.items = AddAll([results |-> <<>>, seen |-> {}],
                                     "email", email.out, UrlRoot).results]
    /\ UNCHANGED <<crawl, norm, phone>>

EmailNext ==
    \/ ExtractEmails
    \/ RecordEmails

EmailSpec == EmailInit /\ [][EmailNext]_vars

----------------------------------------------------------------------------
(* The claims *)

\* C1: in every run, recursive or not and for every max_pages, the number
\* of distinct normalized URLs fetched for extraction is at most max_pages.
\* (Stated as claimed; the non-recursive branch ignores max_pages.)
C1_FetchesWithinBudget ==
    \A r \in 1..runs :
        Cardinality({_normalize_url(log[i].url) :
                        i \in {k \in GetsOfRun(r) : IsExtractGet(k)}}) <= max_pages

\* C2: no two items of the result list have the same value key.
C2_UniqueValueKeys ==
    LET key == [n \in DOMAIN results |-> ItemKey(results[n])]
    IN  \A m, n \in DOMAIN results : m # n => key[m] # key[n]

\* C2 witness: a page yielded the lower-case e-mail after the result list
\* held its upper-case variant, and a phone in a second notation, and both
\* were rejected as duplicates.
C2_Witness ==
    /\ \E i \in DOMAIN log : <<"email", EmailLow>> \in YieldItems(i)
    /\ \E i \in DOMAIN log : <<"phone", PhoneUsIntl>> \in YieldItems(i)
    /\ \E n \in DOMAIN results : results[n].value = EmailUp
    /\ \E n \in DOMAIN results : results[n].value = PhoneUs
    /\ \A n \in DOMAIN results : results[n].value \notin {EmailLow, PhoneUsIntl}

\* C3 as claimed: when two different pages of one recursive run each yield
\* the same contact value, the result list holds exactly one item with that
\* value, and its source_url is the first visited page that yielded it.
C3_OneItemPerValue ==
    recursive =>
      \A r \in 1..runs :
        LET yielded == UNION {{[at |-> i, url |-> log[i].url, what |-> y] :
                                 y \in YieldItems(i)} : i \in PagesOfRun(r)}
        IN  \A y \in {p.what : p \in yielded} :
              LET from  == {p \in yielded : p.what = y}
                  items == {n \in DOMAIN results :
                              results[n].type = y[1] /\ results[n].value = y[2]}
              IN  Cardinality({p.url : p \in from}) >= 2 =>
                    /\ Cardinality(items) = 1
                    /\ \A n \in items :
                         results[n].source_url = log[Min({p.at : p \in from})].url

\* C3 amended: when two different pages of one recursive run each yield a
\* value with the same value key, the result list holds exactly one item
\* with that key, and its source_url is the first visited page that yielded
\* a value with that key.
C3_OneItemPerValueKey ==
    recursive =>
      \A r \in 1..runs :
        LET yielded == UNION {{[at |-> i, url |-> log[i].url, what |-> key] :
                                 key \in YieldKeys(i)} : i \in PagesOfRun(r)}
            held    == {[at |-> n, what |-> ItemKey(results[n])] :
                          n \in DOMAIN results}
        IN  \A key \in {p.what : p \in yielded} :
              LET from  == {p \in yielded : p.what = key}
                  items == {h \in held : h.what = key}
              IN  Cardinality({p.url : p \in from}) >= 2 =>
                    /\ Cardinality(items) = 1
                    /\ \A h \in items :
                         results[h.at].source_url
                           = log[Min({p.at : p \in from})].url

\* C3 witness: a recursive run has ended in which two different pages
\* yielded a phone with the same key.
C3_Witness ==
    /\ recursive /\ pc = "done"
    /\ \E i, j \in DOMAIN log :
        /\ TwoPages(i, j)
        /\ DigitsOnly(PhoneUs) \in YieldKeys(i) \cap YieldKeys(j)

\* C4: the source_url of every item is the raw URL that was fetched for the
\* page on which the value was found.
C4_SourceIsFetchedUrl ==
    LET yield == [i \in DOMAIN log |-> YieldItems(i)] IN
    \A n \in DOMAIN results :
        \E i \in DOMAIN log :
            /\ IsExtractGet(i)
            /\ log[i].url = results[n].source_url
            /\ <<results[n].type, results[n].value>> \in yield[i]

\* C4 witness: an item found on a page whose raw URL is not its own
\* normalized key.
C4_Witness ==
    \E n \in DOMAIN results :
        results[n].source_url # _normalize_url(results[n].source_url)

\* C5 as claimed: every member of visited_urls is a fixed point of the
\* normalizer.
C5_VisitedAreFixedPoints ==
    \A v \in visited_urls : _normalize_url(v) = v

\* C6: a non-recursive run fetches exactly one page, final_url, and ends
\* with visited_urls = {_normalize_url(final_url)}.
C6_SinglePage ==
    (~recursive /\ pc = "done") =>
        /\ visited_urls = {_normalize_url(final_url)}
        /\ Cardinality(GetsOfRun(runs)) = 1
        /\ \A i \in GetsOfRun(runs) : IsExtractGet(i) /\ log[i].url = final_url

\* C6 witness: a non-recursive run on a final URL that is not its own key
\* has ended, and its fetch was answered with a status other than 200.
C6_Witness ==
    /\ ~recursive /\ pc = "done"
    /\ final_url # _normalize_url(final_url)
    /\ \E i \in GetsOfRun(runs) : log[i].status = "non200"

\* the page budget that is left
BudgetLeft == max_pages - page_count

\* how far the current iteration still has to go
StepsLeft == CASE pc = "links" -> 2 [] pc = "loop" -> 1 [] OTHER -> 0

\* the lexicographic order on triples of naturals
LexLess(a, b) ==
    \/ a[1] < b[1]
    \/ a[1] = b[1] /\ a[2] < b[2]
    \/ a[1] = b[1] /\ a[2] = b[2] /\ a[3] < b[3]

\* the step leaves a smaller triple (budget left, steps left, queue size)
MeasureDecreases ==
    /\ BudgetLeft' >= 0
    /\ LexLess(<<BudgetLeft', StepsLeft', Cardinality(urls_to_visit')>>,
               <<BudgetLeft, StepsLeft, Cardinality(urls_to_visit)>>)

C8_NoDelayBeforeFirstGet ==
    \A i \in DOMAIN log :
        (IsGet(i) /\ i = Min(GetsOfRun(log[i].run))) =>
            (i = 1 \/ log[i-1].op # "sleep" \/ log[i-1].run # log[i].run)

\* C9 as claimed: every GET of a run but the first is immediately preceded
\* by the politeness delay, the link-discovery GET included.
C9_DelayBeforeLaterGets ==
    \A i \in DOMAIN log :
        (IsGet(i) /\ i # Min(GetsOfRun(log[i].run))) => log[i-1].op = "sleep"

\* the step that processed a page whose fetch failed
FailedPageStep ==
    /\ recursive /\ pc = "loop"
    /\ page_count' = page_count + 1
    /\ log'[Len(log')].status \in {"error", "non200"}

\* C10: in a recursive run a page whose fetch raises or returns a status
\* other than 200 adds no item, and the run goes on: the other queued URLs
\* stay queued and the loop continues while budget remains.
C10_FailedPageIsSkipped ==
    [][FailedPageStep =>
          /\ results' = results
          /\ seen_values' = seen_values
          /\ urls_to_visit' = urls_to_visit \ {current_url'}
          /\ pc' = IF page_count' < max_pages THEN "links" ELSE "loop"]_vars

\* C10 witness: a page of a recursive run was fetched for extraction after
\* an earlier page of the run had failed with a status other than 200.
C10_Witness ==
    /\ recursive
    /\ \E i, j \in DOMAIN log :
        /\ TwoPages(i, j)
        /\ log[i].status = "non200"
        /\ log[j].status = "ok"

\* C11 as claimed: in a recursive run the link discovery of a page whose
\* extraction fetch raised or returned a status other than 200 adds no URL
\* to the queue, whatever the second request of that page answers.
C11_FailedPageAddsNoLinks ==
    [][(recursive /\ pc = "links"
          /\ log[Len(log)].status \in {"error", "non200"})
         => urls_to_visit' = urls_to_visit]_vars

\* C12 as claimed: a call of extract_emails() on a crawler on which fetch()
\* was not called raises and issues no request.
C12_ExtractionNeedsFetch ==
    [][(~fetched /\ runs' = runs + 1) => (pc' = "raised" /\ log' = log)]_vars

\* C14 as claimed: after a GET of a run failed (raised or returned a status
\* other than 200), the run issues no further GET of the same URL.
C14_NoSecondRequest ==
    \A i, j \in DOMAIN log :
        (/\ i < j
         /\ IsGet(i) /\ IsGet(j)
         /\ log[i].run = log[j].run
         /\ log[i].status \in {"error", "non200"})
        => log[j].url # log[i].url

\* the step that is a call of fetch()
FetchStep == ~fetched /\ fetched'

\* the seed with https:// prepended when it has no http:// or https:// prefix
Qualified(seed) ==
    IF StartsWith(seed, Http) \/ StartsWith(seed, Https) THEN seed ELSE Https \o seed

\* C13: fetch() raises nothing when its HEAD request fails: final_url is
\* then the protocol-qualified seed, and when the HEAD request succeeds
\* final_url is the URL of the response reached after redirects.
C13_FetchFallsBack ==
    [][FetchStep =>
          /\ pc' = pc
          /\ head'.status \in {"error", "ok"}
          /\ head'.status = "error" => final_url' = Qualified(url)
          /\ head'.status = "ok" => final_url' = head'.url]_vars

\* C13 witness: fetch() was called on the seed "/", which has no protocol,
\* its HEAD request failed, and final_url is the seed with https:// prepended.
C13_Witness ==
    /\ fetched
    /\ head.status = "error"
    /\ final_url = Https \o <<"/">>

\* C15 as claimed: normalizing a key again gives the same key.
C15_NormalizeIdempotent ==
    norm.stage = "again" => norm.again = norm.key

\* C16 as claimed: two URLs that differ only in letter case, in the query,
\* in the fragment or in one trailing slash on a non-root path have the same
\* key, and two URLs that differ in scheme, in an explicit port or in path
\* (other than by letter case and that one slash) have different keys.
C16_KeysTellPagesApart ==
    norm.stage = "pair" =>
        /\ norm.how \in Alike => norm.key = norm.other_key
        /\ norm.how \in Distinct => norm.key # norm.other_key

\* C17 as claimed: the key is the lower-cased scheme://netloc and path, the
\* path without one trailing slash and the root path "/" as it is.
C17_StripsOneSlash ==
    norm.stage = "key" =>
        norm.key = Lower(norm.parts.scheme \o <<":","/","/">> \o norm.parts.netloc
                           \o StripOneSlash(norm.parts.path))

\* the step that is the link discovery of the page current_url
LinksStep == pc = "links" /\ pc' = "loop"

\* the two URLs differ in scheme and in nothing else
OnlySchemeDiffers(u, v) ==
    /\ urlparse(u).scheme # urlparse(v).scheme
    /\ [urlparse(u) EXCEPT !.scheme = <<>>] = [urlparse(v) EXCEPT !.scheme = <<>>]

\* C18: every URL link discovery adds to the queue has the netloc of the
\* base URL, so a link to a subdomain or to another host is never added;
\* the scheme is not compared: a link that differs from the base only in
\* scheme is added (unless it was visited or is on the denylist).
C18_LinksStayOnHost ==
    [][LinksStep =>
          /\ \A u \in urls_to_visit' \ urls_to_visit :
                urlparse(u).netloc = urlparse(current_url).netloc
          /\ \A a \in offered' :
                (/\ OnlySchemeDiffers(a, current_url)
                 /\ _normalize_url(a) \notin visited_urls
                 /\ ~IsExcluded(a))
                => a \in urls_to_visit']_vars

\* C18 witness: the page http://a/p offered links to a subdomain, to another
\* host and to https://a/p; the last one is queued, the other two are not.
C18_Witness ==
    /\ pc = "loop"
    /\ current_url = UrlP
    /\ {UrlSub, UrlOther, UrlSec} \subseteq offered
    /\ UrlSec \in urls_to_visit
    /\ UrlSub \notin urls_to_visit
    /\ UrlOther \notin urls_to_visit

\* C19: no URL that link discovery adds to the queue contains, in lower
\* case, a substring of the denylist.
C19_NoDenylistedLink ==
    [][LinksStep =>
          \A u \in urls_to_visit' \ urls_to_visit :
              \A exclude \in Denylist : ~Contains(Lower(u), exclude)]_vars

\* C19 witness: a page offered a link with a fragment and a link to /Admin
\* next to http://a/k; the last one is queued, the other two are not.
C19_Witness ==
    /\ pc = "loop"
    /\ {UrlFrag, UrlAdmin, UrlK} \subseteq offered
    /\ UrlK \in urls_to_visit
    /\ UrlFrag \notin urls_to_visit
    /\ UrlAdmin \notin urls_to_visit

\* C20: for a US number written in the text as (DDD) DDD-DDDD, DDD-DDD-DDDD,
\* +1-DDD-DDD-DDDD or DDD.DDD.DDDD, the output of _extract_phones contains
\* +1-DDD-DDD-DDDD, and once the output is recorded exactly one phone item
\* stands for the number and its value is +1-DDD-DDD-DDDD.
C20_UsNumberIsCanonical ==
    LET canonical == Canonical(phone.area, phone.exchange, phone.line)
        national  == phone.area \o phone.exchange \o phone.line
    IN  /\ phone.stage \in {"extracted", "recorded"} =>
              \E i \in 1..Len(phone.out) : phone.out[i] = canonical
        /\ phone.stage = "recorded" =>
              LET mine == {n \in 1..Len(phone.items) :
                             DigitsOnly(phone.items[n].value)
                               \in {national, <<"1">> \o national}}
              IN  /\ Cardinality(mine) = 1
                  /\ \A n \in mine : /\ phone.items[n].type = "phone"
                                     /\ phone.items[n].value = canonical

\* C20 witness: a number written with its country code was also read by the
\* international pattern, and the one item recorded is the canonical value.
C20_Witness ==
    /\ phone.stage = "recorded"
    /\ phone.form = "country code"
    /\ Len(phone.out) = 2
    /\ Len(phone.items) = 1
    /\ phone.items[1].value = Canonical(phone.area, phone.exchange, phone.line)

\* C21 as claimed: a digit run with no separator character inside it yields
\* no phone entry, whatever its length and whatever label or + is glued to
\* it, and every match that _is_valid_phone accepts has 10 to 15 digits.
C21_DigitRunIsNoPhone ==
    phone.stage \in {"extracted", "recorded"} =>
        /\ phone.form = "run" => (phone.out = <<>> /\ phone.items = <<>>)
        /\ \A i \in 1..Len(phone.accepted) :
              /\ Len(DigitsOnly(phone.accepted[i])) >= 10
              /\ Len(DigitsOnly(phone.accepted[i])) <= 15

\* C22: the recorded value keys are exactly the value keys of the items of
\* the result list, and there are as many keys as items.
C22_SeenMatchesResults ==
    LET keys == {ItemKey(results[n]) : n \in DOMAIN results}
    IN  /\ seen_values = keys
        /\ Cardinality(seen_values) = Len(results)

\* C22 witness: a page yielded four values, two of them duplicates by key of
\* the other two, and two keys are recorded for two items.
C22_Witness ==
    /\ \E i \in DOMAIN log : Cardinality(YieldItems(i)) = 4
    /\ Len(results) = 2
    /\ seen_values = {Lower(EmailUp), DigitsOnly(PhoneUs)}

\* C23 as claimed: no e-mail address longer than 100 characters is reported,
\* neither by _process_page nor as an item of the result list.
C23_NoLongEmail ==
    /\ \A i \in 1..Len(email.out) : Len(email.out[i]) <= MaxEmailLength
    /\ \A n \in 1..Len(email.items) : Len(email.items[n].value) <= MaxEmailLength

\* C24 as claimed: every written variant of a number that differs only in
\* its separators (dots, dashes, one or two spaces, parentheses around a
\* group) is cleaned to the value with one space between the groups, and
\* cleaning the cleaned value leaves it unchanged.
C24_CleanIsCanonical ==
    /\ phone.stage \in {"cleaned", "again"} => phone.out = SpaceSeparated(phone.groups)
    /\ phone.stage = "again" => phone.again = phone.out

\* C25: in a recursive run the links of a page are fetched, and URLs are
\* enqueued, only while the pages-visited count after that page is below
\* max_pages; once the count has reached max_pages no request is issued and
\* nothing is enqueued.
C25_LinksOnlyWithinBudget ==
    [][(recursive /\ pc \in {"loop", "links"}) =>
          /\ (log' # log /\ log'[Len(log')].purpose = "links")
                => (pc = "links" /\ page_count < max_pages)
          /\ ~(urls_to_visit' \subseteq urls_to_visit)
                => (pc = "links" /\ page_count < max_pages)
          /\ page_count >= max_pages
                => (log' = log /\ urls_to_visit' \subseteq urls_to_visit)]_vars

\* C25 witness: a recursive run with a budget of two pages or more has ended
\* on its budget: its last request is the extraction of the page that
\* reached the budget, answered with 200, and URLs are still queued.
C25_Witness ==
    /\ recursive /\ pc = "done"
    /\ max_pages >= 2 /\ page_count = max_pages
    /\ urls_to_visit # {}
    /\ log[Len(log)].purpose = "extract" /\ log[Len(log)].status = "ok"

\* the netloc of url
HostOf(u) == urlparse(u).netloc

\* C26: in a recursive run every URL that is requested, and every URL that
\* is in the queue, has the netloc of final_url.
C26_StaysOnSeedHost ==
    [][recursive =>
          /\ \A i \in (Len(log) + 1)..Len(log') :
                log'[i].op = "get" => HostOf(log'[i].url) = HostOf(final_url)
          /\ \A u \in urls_to_visit' : HostOf(u) = HostOf(final_url')]_vars

\* C26 witness: a chain of three pages: the run fetched the final URL, then
\* http://a/p, which only the first page can have offered, then http://a/k,
\* which only the second page can have offered.
C26_Witness ==
    /\ recursive
    /\ final_url \notin {UrlP, UrlK}
    /\ \E i, j, k \in PagesOfRun(runs) :
          /\ i < j /\ j < k
          /\ log[i].url = final_url /\ log[j].url = UrlP /\ log[k].url = UrlK

\* the step that pops a URL whose normalized key is already visited
PopVisitedStep ==
    /\ pc = "loop"
    /\ urls_to_visit' # urls_to_visit
    /\ _normalize_url(current_url') \in visited_urls

\* C27: popping a URL whose key is already visited changes the queue and
\* nothing else (no request, no delay, no page counted, no result); in the
\* first run of a recursive crawler page_count equals the size of
\* visited_urls; and no page is fetched for extraction whose key an earlier
\* extraction request has.
C27_VisitedPopIsSkipped ==
    [][recursive =>
          /\ PopVisitedStep =>
                /\ log' = log
                /\ page_count' = page_count
                /\ results' = results /\ seen_values' = seen_values
                /\ visited_urls' = visited_urls
                /\ urls_to_visit' = urls_to_visit \ {current_url'}
          /\ runs' = 1 => page_count' = Cardinality(visited_urls')
          /\ \A j \in (Len(log) + 1)..Len(log') :
                (log'[j].op = "get" /\ log'[j].purpose = "extract") =>
                    \A i \in DOMAIN log :
                        IsExtractGet(i) =>
                            _normalize_url(log[i].url) # _normalize_url(log'[j].url)]_vars

\* C27 witness: in the first run, after a page yielded results and with
\* budget left, a URL was popped whose key is visited: it is not the URL of
\* the last request.
C27_Witness ==
    /\ recursive /\ runs = 1 /\ pc = "loop"
    /\ results # <<>>
    /\ page_count >= 1 /\ page_count < max_pages
    /\ _normalize_url(current_url) \in visited_urls
    /\ log[Len(log)].url # current_url

\* an earlier run fetched a page for extraction
EarlierRunVisited == \E i \in DOMAIN log : IsExtractGet(i) /\ log[i].run < runs

\* C28: a recursive run that starts after an earlier run fetched a page is
\* a no-op: at its start the key of final_url is already visited, and none
\* of its steps issues a request, changes visited_urls, changes the results
\* or counts a page.
C28_SecondRunIsNoOp ==
    [][(recursive /\ pc \in {"loop", "links"} /\ EarlierRunVisited) =>
          /\ urls_to_visit = {final_url} => _normalize_url(final_url) \in visited_urls
          /\ log' = log
          /\ visited_urls' = visited_urls
          /\ results' = results /\ seen_values' = seen_values
          /\ page_count' = 0
          /\ pc' \in {"loop", "done"}]_vars

\* C28 witness: a second run that ended, after a first run that processed
\* two pages and recorded results, with budget for more.
C28_Witness ==
    /\ recursive /\ runs = 2 /\ pc = "done"
    /\ page_count = 0 /\ max_pages >= 2
    /\ current_url = final_url
    /\ Cardinality(PagesOfRun(1)) = 2
    /\ results # <<>>
    /\ GetsOfRun(2) = {}

====
